---- MODULE Spec2Model ----
(***************************************************************************)
(* The C-linkage bridge of skia-bindings to Skia's Graphite backend        *)
(* (src/skia-bindings/src/graphite.cpp) and the Dawn context factory       *)
(* (src/skia-bindings/src/dawn.cpp), as a state machine.                   *)
(*                                                                         *)
(* Every extern "C" entry point is one action, named as in the source.     *)
(* What the wrapped library does behind an entry point (the Context's      *)
(* queue, the Recorder's command buffer, the value types' assignment and   *)
(* finalizers) is kept in operators of their own, named after the library  *)
(* call the entry point makes.                                             *)
(***************************************************************************)
EXTENDS Integers, FiniteSets, Sequences, TLC

\* Bounds of the model: how many Recordings are ever snapped, how many
\* commands are ever recorded, how often the Dawn factory is called.
MaxRecordings == 2
MaxCommands == 2
MaxDawnCalls == 3
\* How many values holding a backend resource the Make* calls ever produce.
MaxResources == 3
MaxUnfinalized == 2

\* One Context and one Recorder made from it; Recordings and commands are
\* numbered in the order they come to be.
ContextIds == {1}
RecorderIds == {1}
RecordingIds == 1..MaxRecordings

VARIABLES
    \* ---- process ----
    fault,        \* the process has faulted (undefined behaviour took the crash outcome)
    ret,          \* what the last entry point handed back to its caller
    \* ---- dawn.cpp ----
    device,       \* static wgpu::Device *device; 0 is nullptr, n the n-th device created
    devicesCreated, \* number of `new wgpu::Device()` executed so far
    dawnCalls,    \* number of C_GrDirectContext_MakeDawn calls so far
    \* ---- graphite.cpp: heap objects behind the opaque pointers ----
    ctx,          \* Context objects
    recorder,     \* Recorder objects
    recording,    \* Recording objects
    nextCmd,      \* next command the rendering API will record
    pending,      \* per Context: Recordings inserted and not yet submitted
    submitCount,  \* per Recording: how many times it was handed to the GPU
    gpuBusy,      \* Recordings handed to the GPU whose work has not completed
    \* ---- graphite.cpp: value descriptors in caller storage ----
    ti,           \* the caller's TextureInfo storage
    bt,           \* the caller's BackendTexture storage
    mbc,          \* the caller's MtlBackendContext storage
    rc,           \* platform reference count of each native handle
    nextRes,      \* the next backend resource a Make* call acquires
    rel,          \* per backend resource: how many times it was released
    clobbered,    \* resources whose holder was overwritten without being finalized
    surfaces,     \* surfaces wrapping the caller's BackendTexture
    surfaceHold,  \* the resource a wrapping surface releases when it dies (0: none)
    unfinalized,  \* values in the TextureInfo storage overwritten without being finalized
    \* ---- caller threads inside insertRecording / submit ----
    tpc,          \* per thread: "idle", or the entry point it is inside
    targ,         \* per thread: the Recording it is inserting (0: none)
    tseen,        \* per thread: the Context's queue as the call read it
    lostDevices   \* devices whose handle in `device` was overwritten

lifeVars == <<fault, ret, device, devicesCreated, dawnCalls, ctx, recorder, recording,
              nextCmd, pending, submitCount, gpuBusy>>

valueVars == <<ti, bt, mbc, rc, nextRes, rel, clobbered, surfaces, surfaceHold, unfinalized>>

threadVars == <<tpc, targ, tseen, lostDevices>>

vars == <<lifeVars, gpuBusy, valueVars, threadVars>>

\* ret: the entry point last called (op), the argument the model keeps of it
\* (opt), what it returned to the caller (val; id is the object a returned
\* pointer points to) and what the library call inside it returned (inner).
NoRet == [op |-> "none", val |-> "none", id |-> 0, opt |-> "none", inner |-> "none"]
Ret(op, val, id, opt) == [op |-> op, val |-> val, id |-> id, opt |-> opt, inner |-> val]
Void == [op |-> "void", val |-> "void", id |-> 0, opt |-> "none", inner |-> "void"]
Bool(b) == IF b THEN "true" ELSE "false"

NoContext == [st |-> "none"]
NoRecorder == [st |-> "none", ctx |-> 0, buf |-> {}, opt |-> "none"]
NoRecording == [st |-> "none", from |-> 0, content |-> {}, ins |-> "none", freed |-> 0]

\* Caller storage for a value descriptor: raw memory, or a live value with
\* its validity, the backend resource it holds (0: none) and how the value
\* came to be ("default": default constructor, "make": a backend Make call,
\* "info": copy of a BackendTexture's info).
RawStorage == [st |-> "raw", valid |-> FALSE, res |-> 0, origin |-> "none"]
DefaultValue == [st |-> "live", valid |-> FALSE, res |-> 0, origin |-> "default"]
ResourceIds == 1..MaxResources
\* The native device and queue handles the caller has; it holds one
\* reference to each.
Handles == {"h1", "h2"}

\* Threads of the calling application.
Threads == {"t1", "t2"}

\* The object a `new` hands out: one that was never handed out before.
Unused(objs) == {i \in DOMAIN objs : objs[i].st = "none"}
Fresh(objs) == CHOOSE i \in Unused(objs) : \A j \in Unused(objs) : i <= j

LiveRecorders == {r \in RecorderIds : recorder[r].st \in {"idle", "recording"}}

Init ==
    /\ fault = FALSE
    /\ ret = NoRet
    /\ device = 0
    /\ devicesCreated = 0
    /\ dawnCalls = 0
    /\ ctx = [c \in ContextIds |-> NoContext]
    /\ recorder = [r \in RecorderIds |-> NoRecorder]
    /\ recording = [g \in RecordingIds |-> NoRecording]
    /\ nextCmd = 1
    /\ pending = [c \in ContextIds |-> {}]
    /\ submitCount = [g \in RecordingIds |-> 0]
    /\ gpuBusy = {}
    /\ ti = RawStorage
    /\ bt = RawStorage
    /\ mbc = [st |-> "raw", dev |-> "null", queue |-> "null"]
    /\ rc = [h \in Handles |-> 1]
    /\ nextRes = 1
    /\ rel = [n \in ResourceIds |-> 0]
    /\ clobbered = {}
    /\ surfaces = 0
    /\ surfaceHold = 0
    /\ unfinalized = 0
    /\ tpc = [t \in Threads |-> "idle"]
    /\ targ = [t \in Threads |-> 0]
    /\ tseen = [t \in Threads |-> {}]
    /\ lostDevices = {}

----------------------------------------------------------------------------
(* Context factories *)

\* `*options`: what reading through the options pointer can do.  Through a
\* null pointer it is undefined: the build either faults or goes on with
\* whatever it read.
Deref(options) == IF options = "absent" THEN {"fault", "garbage"} ELSE {"value"}

\* ContextFactory::MakeMetal / MakeVulkan(...).release(): a new Context, or
\* null when the backend cannot initialize.
ContextFactory_Make(kind, options, made) ==
    IF made /\ Unused(ctx) # {}
    THEN /\ ctx' = [ctx EXCEPT ![Fresh(ctx)] = [st |-> "live"]]
         /\ ret' = Ret("Make_" \o kind, "ptr", Fresh(ctx), options)
    ELSE /\ ctx' = ctx
         /\ ret' = Ret("Make_" \o kind, "null", 0, options)

MakeGraphiteContext(kind, options) ==
    /\ ~fault
    /\ \E d \in Deref(options) :
         IF d = "fault"
         THEN /\ fault' = TRUE
              /\ ret' = Ret("Make_" \o kind, "fault", 0, options)
              /\ ctx' = ctx
         ELSE /\ fault' = FALSE
              /\ \E made \in BOOLEAN : ContextFactory_Make(kind, options, made)
    /\ UNCHANGED <<device, devicesCreated, dawnCalls, recorder, recording, nextCmd,
                   pending, submitCount,
                   gpuBusy, valueVars, threadVars>>

C_Context_MakeMetal(options) == MakeGraphiteContext("metal", options)

C_Context_MakeVulkan(options) == MakeGraphiteContext("vulkan", options)

\* device = new wgpu::Device();  on every call, without the test.
LazyDevice_unconditional ==
    [dev |-> devicesCreated + 1, created |-> devicesCreated + 1]

\* if (!device) { device = new wgpu::Device(); }
\* dev: the static pointer afterwards; created: the devices created so far.
LazyDevice ==
    IF device = 0
    THEN [dev |-> devicesCreated + 1, created |-> devicesCreated + 1]
    ELSE [dev |-> device, created |-> devicesCreated]

C_GrDirectContext_MakeDawn(options) ==
    /\ ~fault
    /\ dawnCalls < MaxDawnCalls
    /\ dawnCalls' = dawnCalls + 1
    /\ device' = LazyDevice.dev
    /\ devicesCreated' = LazyDevice.created
    /\ \E made \in BOOLEAN :
         ret' = Ret("MakeDawn", IF made THEN "ptr" ELSE "null", device', options)
    /\ UNCHANGED <<fault, ctx, recorder, recording, nextCmd, pending, submitCount,
                   gpuBusy, valueVars, threadVars>>

\* A Context whose destructor takes the objects derived from it along.
C_Context_Destruct_cascading(c) ==
    /\ ~fault
    /\ ctx[c].st = "live"
    /\ ctx' = [ctx EXCEPT ![c].st = "dead"]
    /\ pending' = [pending EXCEPT ![c] = {}]
    /\ recorder' = [r \in RecorderIds |->
                      IF recorder[r].st \in {"idle", "recording"} /\ recorder[r].ctx = c
                      THEN [recorder[r] EXCEPT !.st = "dead", !.buf = {}, !.opt = "none"]
                      ELSE recorder[r]]
    /\ ret' = Void
    /\ UNCHANGED <<fault, device, devicesCreated, dawnCalls, recording,
                   nextCmd, submitCount,
                   gpuBusy, valueVars, threadVars>>

\* delete self;  Nothing is checked and nothing else is touched: Recorders
\* and Recordings derived from the Context stay as they are.
C_Context_Destruct(c) ==
    /\ ~fault
    /\ ctx[c].st = "live"
    /\ ctx' = [ctx EXCEPT ![c].st = "dead"]
    /\ pending' = [pending EXCEPT ![c] = {}]
    /\ ret' = Void
    /\ UNCHANGED <<fault, device, devicesCreated, dawnCalls, recorder, recording,
                   nextCmd, submitCount,
                   gpuBusy, valueVars, threadVars>>

----------------------------------------------------------------------------
(* Recorder and Recording *)

\* What Context::makeRecorder(...).release() hands back: the new Recorder,
\* or 0 for null.
MadeRecorder(made) == IF made /\ Unused(recorder) # {} THEN Fresh(recorder) ELSE 0

\* Context::makeRecorder(options).release(): a new Recorder bound to the
\* Context it was called on and configured by options, or null.
Context_makeRecorder(c, options, made) ==
    recorder' = IF MadeRecorder(made) = 0 THEN recorder
                ELSE [recorder EXCEPT ![MadeRecorder(made)] =
                         [st |-> "idle", ctx |-> c, buf |-> {}, opt |-> options]]

\* return self->makeRecorder().release();  whatever options says.
C_Context_makeRecorder_defaults(c, options) ==
    /\ ~fault
    /\ ctx[c].st = "live"
    /\ \E made \in BOOLEAN :
         /\ Context_makeRecorder(c, "defaults", made)
         /\ ret' = Ret("makeRecorder", IF MadeRecorder(made) = 0 THEN "null" ELSE "ptr",
                       MadeRecorder(made), options)
    /\ UNCHANGED <<fault, device, devicesCreated, dawnCalls, ctx, recording, nextCmd,
                   pending, submitCount,
                   gpuBusy, valueVars, threadVars>>

\* if (options) makeRecorder(*options) else makeRecorder()
\* ret.opt is the options argument as the caller passed it.
C_Context_makeRecorder(c, options) ==
    /\ ~fault
    /\ ctx[c].st = "live"
    /\ \E made \in BOOLEAN :
         /\ Context_makeRecorder(c, IF options = "absent" THEN "defaults" ELSE options, made)
         /\ ret' = Ret("makeRecorder", IF MadeRecorder(made) = 0 THEN "null" ELSE "ptr",
                       MadeRecorder(made), options)
    /\ UNCHANGED <<fault, device, devicesCreated, dawnCalls, ctx, recording, nextCmd,
                   pending, submitCount,
                   gpuBusy, valueVars, threadVars>>

\* The rendering API draws through a surface of the Recorder: one more
\* command in the Recorder's buffer (Idle -> Recording).
Record(r) ==
    /\ ~fault
    /\ r \in LiveRecorders
    /\ ctx[recorder[r].ctx].st = "live"
    /\ nextCmd <= MaxCommands
    /\ recorder' = [recorder EXCEPT ![r].st = "recording",
                                    ![r].buf = recorder[r].buf \cup {nextCmd}]
    /\ nextCmd' = nextCmd + 1
    /\ ret' = Void
    /\ UNCHANGED <<fault, device, devicesCreated, dawnCalls, ctx, recording, pending,
                   submitCount,
                   gpuBusy, valueVars, threadVars>>

\* Recorder::snap(): a new Recording holding the buffer, or null on failure;
\* the Recorder's buffer is reset either way.
Recorder_snap(r, ok) ==
    /\ recorder' = [recorder EXCEPT ![r].st = "idle", ![r].buf = {}]
    /\ IF ok
       THEN /\ recording' = [recording EXCEPT ![Fresh(recording)] =
                                [st |-> "snapped", from |-> r, content |-> recorder[r].buf,
                                 ins |-> "none", freed |-> 0]]
            /\ ret' = Ret("snap", "ptr", Fresh(recording), "none")
       ELSE /\ recording' = recording
            /\ ret' = Ret("snap", "null", 0, "none")

\* return self->snap().get();  The unique_ptr dies at the return and deletes
\* the Recording whose address the caller receives.
C_Recorder_snap_get(r) ==
    /\ ~fault
    /\ r \in LiveRecorders
    /\ ctx[recorder[r].ctx].st = "live"
    /\ Unused(recording) # {}
    /\ recorder' = [recorder EXCEPT ![r].st = "idle", ![r].buf = {}]
    /\ \E ok \in BOOLEAN :
         IF ok
         THEN /\ recording' = [recording EXCEPT ![Fresh(recording)] =
                                  [st |-> "discarded", from |-> r,
                                   content |-> recorder[r].buf, ins |-> "none", freed |-> 1]]
              /\ ret' = Ret("snap", "ptr", Fresh(recording), "none")
         ELSE /\ recording' = recording
              /\ ret' = Ret("snap", "null", 0, "none")
    /\ UNCHANGED <<fault, device, devicesCreated, dawnCalls, ctx, nextCmd, pending,
                   submitCount,
                   gpuBusy, valueVars, threadVars>>

\* return self->snap().release();
C_Recorder_snap(r) ==
    /\ ~fault
    /\ r \in LiveRecorders
    /\ ctx[recorder[r].ctx].st = "live"
    /\ Unused(recording) # {}
    /\ \E ok \in BOOLEAN : Recorder_snap(r, ok)
    /\ UNCHANGED <<fault, device, devicesCreated, dawnCalls, ctx, nextCmd, pending,
                   submitCount,
                   gpuBusy, valueVars, threadVars>>

\* delete self;
C_Recorder_Destruct(r) ==
    /\ ~fault
    /\ r \in LiveRecorders
    /\ recorder' = [recorder EXCEPT ![r].st = "dead", ![r].buf = {}, ![r].opt = "none"]
    /\ ret' = Void
    /\ UNCHANGED <<fault, device, devicesCreated, dawnCalls, ctx, recording, nextCmd,
                   pending, submitCount,
                   gpuBusy, valueVars, threadVars>>

\* delete self;  The caller discards a Recording it never inserted.
C_Recording_Destruct(g) ==
    /\ ~fault
    /\ recording[g].st = "snapped"
    /\ recording' = [recording EXCEPT ![g].st = "discarded",
                                      ![g].freed = recording[g].freed + 1]
    /\ ret' = Void
    /\ UNCHANGED <<fault, device, devicesCreated, dawnCalls, ctx, recorder, nextCmd,
                   pending, submitCount,
                   gpuBusy, valueVars, threadVars>>

----------------------------------------------------------------------------
(* Submission pipeline *)

RecordingContext(g) == recorder[recording[g].from].ctx

\* Context::insertRecording(info): on success the Recording's work joins the
\* Context's queue.  info.fRecording is a plain pointer: the call frees nothing.
Context_insertRecording(c, g, ok) ==
    /\ pending' = [pending EXCEPT ![c] = IF ok THEN pending[c] \cup {g} ELSE pending[c]]
    /\ recording' = [recording EXCEPT ![g].st = "inserted",
                                      ![g].ins = Bool(ok)]

\* InsertRecordingInfo info; info.fRecording = recording;
\* return self->insertRecording(info);
C_Context_insertRecording(c, g) ==
    /\ ~fault
    /\ ctx[c].st = "live"
    /\ recording[g].st = "snapped"
    /\ RecordingContext(g) = c
    /\ \E ok \in BOOLEAN :
         /\ Context_insertRecording(c, g, ok)
         /\ ret' = Ret("insertRecording", Bool(ok), g, "none")
    /\ UNCHANGED <<fault, device, devicesCreated, dawnCalls, ctx, recorder, nextCmd,
                   submitCount,
                   gpuBusy, valueVars, threadVars>>

\* Context::submit(syncToCpu): hands the queued work to the GPU and empties
\* the queue; on failure (device lost) the queued work is dropped, not retried.
\* With SyncToCpu::kYes the call then waits until the GPU has completed all
\* the work it was handed; with kNo it returns at once.
Context_submit(c, syncToCpu, ok) ==
    /\ submitCount' = [g \in RecordingIds |->
                          IF ok /\ g \in pending[c] THEN submitCount[g] + 1
                                                    ELSE submitCount[g]]
    /\ pending' = [pending EXCEPT ![c] = {}]
    /\ gpuBusy' = IF syncToCpu = "kYes" THEN {}
                  ELSE IF ok THEN gpuBusy \cup pending[c] ELSE gpuBusy

\* What the caller of C_Context_submit gets: the entry point is declared
\* void and drops the bool of self->submit(syncToCpu).
SubmitResult(ok) == "void"

\* self->submit(SyncToCpu::kNo): the caller's mode is not forwarded.
C_Context_submit_async(c, syncToCpu) ==
    /\ ~fault
    /\ ctx[c].st = "live"
    /\ \E ok \in BOOLEAN :
         /\ Context_submit(c, "kNo", ok)
         /\ ret' = [op |-> "submit", val |-> SubmitResult(ok), id |-> c,
                     opt |-> syncToCpu, inner |-> Bool(ok)]
    /\ UNCHANGED <<fault, device, devicesCreated, dawnCalls, ctx, recorder, recording,
                   nextCmd,
                   valueVars, threadVars>>

\* self->submit(syncToCpu);
C_Context_submit(c, syncToCpu) ==
    /\ ~fault
    /\ ctx[c].st = "live"
    /\ \E ok \in BOOLEAN :
         /\ Context_submit(c, syncToCpu, ok)
         /\ ret' = [op |-> "submit", val |-> SubmitResult(ok), id |-> c,
                     opt |-> syncToCpu, inner |-> Bool(ok)]
    /\ UNCHANGED <<fault, device, devicesCreated, dawnCalls, ctx, recorder, recording,
                   nextCmd,
                   valueVars, threadVars>>

\* The GPU completes the work of one Recording it was handed.
GpuComplete(g) ==
    /\ g \in gpuBusy
    /\ gpuBusy' = gpuBusy \ {g}
    /\ UNCHANGED <<fault, ret, device, devicesCreated, dawnCalls, ctx, recorder,
                   recording, nextCmd, pending, submitCount, valueVars, threadVars>>

----------------------------------------------------------------------------
(* Value descriptors: TextureInfo, BackendTexture *)

lifeFrame == <<fault, device, devicesCreated, dawnCalls, ctx, recorder, recording,
               nextCmd, pending, submitCount, gpuBusy, threadVars>>

\* The finalizer of a value: the resource it holds is released.
Released(relf, v) ==
    IF v.res = 0 THEN relf ELSE [relf EXCEPT ![v.res] = @ + 1]

\* What a backend Make call returns: a valid value holding a newly acquired
\* resource, or an invalid one holding none.
MadeValue(ok) ==
    [st |-> "live", valid |-> ok, res |-> IF ok THEN nextRes ELSE 0, origin |-> "make"]

PriorOf(v) == IF v.valid THEN "over_valid" ELSE "over_invalid"

\* new (ti) TextureInfo();
C_TextureInfo_Construct ==
    /\ ti.st = "raw"
    /\ ti' = DefaultValue
    /\ ret' = Ret("TextureInfo_Construct", "void", 0, "none")
    /\ UNCHANGED <<lifeFrame, bt, mbc, rc, nextRes, rel, clobbered, surfaces, surfaceHold, unfinalized>>

\* ti->~TextureInfo();
C_TextureInfo_Destruct ==
    /\ ti.st = "live"
    /\ rel' = Released(rel, ti)
    /\ ti' = RawStorage
    /\ ret' = Ret("TextureInfo_Destruct", "void", 0, "none")
    /\ UNCHANGED <<lifeFrame, bt, mbc, rc, nextRes, clobbered, surfaces, surfaceHold, unfinalized>>

\* new (bt) BackendTexture();
C_BackendTexture_Construct ==
    /\ bt.st = "raw"
    /\ bt' = DefaultValue
    /\ ret' = Ret("BackendTexture_Construct", "void", 0, "none")
    /\ UNCHANGED <<lifeFrame, ti, mbc, rc, nextRes, rel, clobbered, surfaces, surfaceHold, unfinalized>>

\* bt->~BackendTexture();
C_BackendTexture_Destruct ==
    /\ bt.st = "live"
    /\ rel' = Released(rel, bt)
    /\ bt' = RawStorage
    /\ ret' = Ret("BackendTexture_Destruct", "void", 0, "none")
    /\ UNCHANGED <<lifeFrame, ti, mbc, rc, nextRes, clobbered, surfaces, surfaceHold, unfinalized>>

\* new (self) T(Make(...)): the new value is constructed over the old one,
\* whose finalizer never runs.
Overwrite(old, new) == [value |-> new, rel |-> rel]

\* *self = Make(...): the assignment finalizes what the target held and
\* stores the new value.
Assign(old, new) == [value |-> new, rel |-> Released(rel, old)]

\* *self = TextureInfos::MakeMetal(texture);
C_TextureInfo_MakeMetal(ok) ==
    /\ ti.st = "live"
    /\ nextRes <= MaxResources
    /\ ti' = Assign(ti, MadeValue(ok)).value
    /\ rel' = Assign(ti, MadeValue(ok)).rel
    /\ nextRes' = IF ok THEN nextRes + 1 ELSE nextRes
    /\ ret' = Ret("TextureInfo_MakeMetal", "void", 0, PriorOf(ti))
    /\ UNCHANGED <<lifeFrame, bt, mbc, rc, clobbered, surfaces, surfaceHold, unfinalized>>

BackendTexture_Make(op, ok) ==
    /\ bt.st = "live"
    /\ nextRes <= MaxResources
    /\ bt' = Assign(bt, MadeValue(ok)).value
    /\ rel' = Assign(bt, MadeValue(ok)).rel
    /\ nextRes' = IF ok THEN nextRes + 1 ELSE nextRes
    /\ ret' = Ret(op, "void", 0, PriorOf(bt))
    /\ UNCHANGED <<lifeFrame, ti, mbc, rc, clobbered, surfaces, surfaceHold, unfinalized>>

\* *self = BackendTextures::MakeMetal(*dimensions, texture);
C_BackendTexture_MakeMetal(ok) == BackendTexture_Make("BackendTexture_MakeMetal", ok)

\* *self = BackendTextures::MakeVulkan(*dimensions, *info, layout, ...);
C_BackendTexture_MakeVulkan(ok) == BackendTexture_Make("BackendTexture_MakeVulkan", ok)

\* return self->isValid();
C_TextureInfo_isValid ==
    /\ ti.st = "live"
    /\ ret' = Ret("TextureInfo_isValid", Bool(ti.valid), 0, "none")
    /\ UNCHANGED <<lifeFrame, valueVars>>

\* return self->isValid();
C_BackendTexture_isValid ==
    /\ bt.st = "live"
    /\ ret' = Ret("BackendTexture_isValid", Bool(bt.valid), 0, "none")
    /\ UNCHANGED <<lifeFrame, valueVars>>

\* The copy C_BackendTexture_info constructs: self->info(), valid exactly
\* when the BackendTexture is, with a hold of its own on what it describes.
InfoCopy ==
    [st |-> "live", valid |-> bt.valid, res |-> IF bt.valid THEN nextRes ELSE 0,
     origin |-> "info"]

\* Constructing a value over a live one leaves the old value unfinalized.
ConstructedOver(v) == IF v.st = "live" THEN unfinalized + 1 ELSE unfinalized

\* new (result) TextureInfo();  The info of the BackendTexture is not copied.
C_BackendTexture_info_default ==
    /\ bt.st = "live"
    /\ nextRes <= MaxResources
    /\ ti.st = "live" => unfinalized < MaxUnfinalized
    /\ ti' = DefaultValue
    /\ clobbered' = IF ti.st = "live" /\ ti.res # 0 THEN clobbered \cup {ti.res}
                                                     ELSE clobbered
    /\ unfinalized' = ConstructedOver(ti)
    /\ ret' = Ret("BackendTexture_info", "void", 0, "none")
    /\ UNCHANGED <<lifeFrame, bt, mbc, rc, nextRes, rel, surfaces, surfaceHold>>

\* *result = self->info();  The result must be a constructed TextureInfo,
\* whose prior value the assignment finalizes.
C_BackendTexture_info_assigning ==
    /\ bt.st = "live"
    /\ ti.st = "live"
    /\ nextRes <= MaxResources
    /\ ti' = InfoCopy
    /\ nextRes' = IF bt.valid THEN nextRes + 1 ELSE nextRes
    /\ rel' = Released(rel, ti)
    /\ ret' = Ret("BackendTexture_info", "void", 0, "none")
    /\ UNCHANGED <<lifeFrame, bt, mbc, rc, clobbered, surfaces, surfaceHold, unfinalized>>

\* new (result) TextureInfo(self->info());  Constructed in place, whatever
\* the result storage holds: raw storage, or a live TextureInfo whose
\* finalizer then never runs.
C_BackendTexture_info ==
    /\ bt.st = "live"
    /\ nextRes <= MaxResources
    /\ ti.st = "live" => unfinalized < MaxUnfinalized
    /\ ti' = InfoCopy
    /\ nextRes' = IF bt.valid THEN nextRes + 1 ELSE nextRes
    /\ clobbered' = IF ti.st = "live" /\ ti.res # 0 THEN clobbered \cup {ti.res}
                                                     ELSE clobbered
    /\ unfinalized' = ConstructedOver(ti)
    /\ ret' = Ret("BackendTexture_info", "void", 0, "none")
    /\ UNCHANGED <<lifeFrame, bt, mbc, rc, rel, surfaces, surfaceHold>>

\* return self->dimensions();
C_BackendTexture_dimensions ==
    /\ bt.st = "live"
    /\ ret' = Ret("BackendTexture_dimensions", "size", 0, "none")
    /\ UNCHANGED <<lifeFrame, valueVars>>

\* WrapBackendTexture(recorder, *backendTexture, ..., releaseProc): the
\* surface is told to release the texture when it dies.
C_Surface_MakeGraphiteWrapped_adopting ==
    /\ bt.st = "live"
    /\ \E made \in BOOLEAN :
         IF made /\ bt.valid /\ surfaces = 0
         THEN /\ surfaces' = surfaces + 1
              /\ surfaceHold' = bt.res
              /\ ret' = Ret("Surface_MakeGraphiteWrapped", "ptr", 0, "none")
         ELSE /\ surfaces' = surfaces
              /\ surfaceHold' = surfaceHold
              /\ ret' = Ret("Surface_MakeGraphiteWrapped", "null", 0, "none")
    /\ UNCHANGED <<lifeFrame, ti, bt, mbc, rc, nextRes, rel, clobbered, unfinalized>>

\* return SkSurfaces::WrapBackendTexture(recorder, *backendTexture, ...).release();
\* null for an invalid BackendTexture, or when the backend refuses (as it
\* does here once one wrapping surface exists).  The BackendTexture is read
\* through a pointer to const and no release procedure is passed: the
\* surface holds nothing it would release.  recorder is a live Recorder of
\* the caller.
C_Surface_MakeGraphiteWrapped ==
    /\ bt.st = "live"
    /\ \E made \in BOOLEAN :
         IF made /\ bt.valid /\ surfaces = 0
         THEN /\ surfaces' = surfaces + 1
              /\ ret' = Ret("Surface_MakeGraphiteWrapped", "ptr", 0, "none")
         ELSE /\ surfaces' = surfaces
              /\ ret' = Ret("Surface_MakeGraphiteWrapped", "null", 0, "none")
    /\ UNCHANGED <<lifeFrame, ti, bt, mbc, rc, nextRes, rel, clobbered, surfaceHold, unfinalized>>

\* The caller drops its reference to a wrapping surface: the surface dies
\* and releases what it holds.
SkSurface_unref ==
    /\ surfaces > 0
    /\ surfaces' = surfaces - 1
    /\ rel' = IF surfaceHold = 0 THEN rel ELSE [rel EXCEPT ![surfaceHold] = @ + 1]
    /\ surfaceHold' = 0
    /\ ret' = Ret("Surface_unref", "void", 0, "none")
    /\ UNCHANGED <<lifeFrame, ti, bt, mbc, rc, nextRes, clobbered, unfinalized>>

----------------------------------------------------------------------------
(* MtlBackendContext: the platform device and queue handles *)

\* A handle stored without CFRetain.
CFRetain_missing(rcf, h) == rcf

\* CFRetain(h): one more reference to the native object.
CFRetain(rcf, h) == [rcf EXCEPT ![h] = @ + 1]

\* sk_cfp<T>::~sk_cfp(): CFRelease of the handle held, if any.
CFRelease(rcf, h) == IF h = "null" THEN rcf ELSE [rcf EXCEPT ![h] = @ - 1]

\* new (context) MtlBackendContext();
\* context->fDevice.reset(CFRetain(device));
\* context->fQueue.reset(CFRetain(queue));
C_MtlBackendContext_Construct(dev, queue) ==
    /\ mbc.st = "raw"
    /\ mbc' = [st |-> "live", dev |-> dev, queue |-> queue]
    /\ rc' = CFRetain(CFRetain(rc, dev), queue)
    /\ ret' = Ret("MtlBackendContext_Construct", "void", 0, "none")
    /\ UNCHANGED <<lifeFrame, ti, bt, nextRes, rel, clobbered, surfaces, surfaceHold, unfinalized>>

\* context->~MtlBackendContext();
C_MtlBackendContext_Destruct ==
    /\ mbc.st = "live"
    /\ rc' = CFRelease(CFRelease(rc, mbc.queue), mbc.dev)
    /\ mbc' = [st |-> "raw", dev |-> "null", queue |-> "null"]
    /\ ret' = Ret("MtlBackendContext_Destruct", "void", 0,
                  IF mbc.dev = mbc.queue THEN "same" ELSE "distinct")
    /\ UNCHANGED <<lifeFrame, ti, bt, nextRes, rel, clobbered, surfaces, surfaceHold, unfinalized>>

ValueNext ==
    \/ C_TextureInfo_Construct
    \/ C_TextureInfo_Destruct
    \/ C_BackendTexture_Construct
    \/ C_BackendTexture_Destruct
    \/ \E ok \in BOOLEAN : C_TextureInfo_MakeMetal(ok)
    \/ \E ok \in BOOLEAN : C_BackendTexture_MakeMetal(ok)
    \/ \E ok \in BOOLEAN : C_BackendTexture_MakeVulkan(ok)
    \/ C_TextureInfo_isValid
    \/ C_BackendTexture_isValid
    \/ C_BackendTexture_info
    \/ C_BackendTexture_dimensions
    \/ C_Surface_MakeGraphiteWrapped
    \/ SkSurface_unref
    \/ \E d \in Handles, q \in Handles : C_MtlBackendContext_Construct(d, q)
    \/ C_MtlBackendContext_Destruct

SpecValue == Init /\ [][ValueNext]_vars

----------------------------------------------------------------------------
(* insertRecording and submit called from several threads.  Neither entry  *)
(* point takes a lock, so a call's read of the Context's queue and its     *)
(* write back are separate steps that other threads' steps can come        *)
(* between.                                                                *)

\* After make context, makeRecorder and MaxRecordings snaps with nothing
\* recorded: the Recordings the threads are about to insert.
InitThreads ==
    /\ fault = FALSE
    /\ ret = NoRet
    /\ device = 0
    /\ devicesCreated = 0
    /\ dawnCalls = 0
    /\ ctx = [c \in ContextIds |-> [st |-> "live"]]
    /\ recorder = [r \in RecorderIds |->
                      [st |-> "idle", ctx |-> 1, buf |-> {}, opt |-> "defaults"]]
    /\ recording = [g \in RecordingIds |->
                       [st |-> "snapped", from |-> 1, content |-> {}, ins |-> "none",
                        freed |-> 0]]
    /\ nextCmd = 1
    /\ pending = [c \in ContextIds |-> {}]
    /\ submitCount = [g \in RecordingIds |-> 0]
    /\ gpuBusy = {}
    /\ ti = RawStorage
    /\ bt = RawStorage
    /\ mbc = [st |-> "raw", dev |-> "null", queue |-> "null"]
    /\ rc = [h \in Handles |-> 1]
    /\ nextRes = 1
    /\ rel = [n \in ResourceIds |-> 0]
    /\ clobbered = {}
    /\ surfaces = 0
    /\ surfaceHold = 0
    /\ unfinalized = 0
    /\ tpc = [t \in Threads |-> "idle"]
    /\ targ = [t \in Threads |-> 0]
    /\ tseen = [t \in Threads |-> {}]
    /\ lostDevices = {}

threadFrame == <<fault, device, devicesCreated, dawnCalls, ctx, recorder, nextCmd,
                 valueVars>>

\* Thread t enters C_Context_insertRecording(c, g): the call reads the queue.
InsertRecording_enter(t, c, g) ==
    /\ tpc[t] = "idle"
    /\ ctx[c].st = "live"
    /\ recording[g].st = "snapped"
    /\ RecordingContext(g) = c
    /\ recording' = [recording EXCEPT ![g].st = "inserted"]
    /\ tpc' = [tpc EXCEPT ![t] = "insertRecording"]
    /\ targ' = [targ EXCEPT ![t] = g]
    /\ tseen' = [tseen EXCEPT ![t] = pending[c]]
    /\ UNCHANGED <<threadFrame, ret, pending, submitCount, gpuBusy, lostDevices>>

\* The call writes the queue it read, with the Recording added, and returns.
InsertRecording_return(t, c) ==
    /\ tpc[t] = "insertRecording"
    /\ pending' = [pending EXCEPT ![c] = tseen[t] \cup {targ[t]}]
    /\ recording' = [recording EXCEPT ![targ[t]].ins = "true"]
    /\ ret' = Ret("insertRecording", "true", targ[t], "none")
    /\ tpc' = [tpc EXCEPT ![t] = "idle"]
    /\ targ' = [targ EXCEPT ![t] = 0]
    /\ tseen' = [tseen EXCEPT ![t] = {}]
    /\ UNCHANGED <<threadFrame, submitCount, gpuBusy, lostDevices>>

\* Thread t enters C_Context_submit(c, syncToCpu): the call reads the queue.
Submit_enter(t, c) ==
    /\ tpc[t] = "idle"
    /\ ctx[c].st = "live"
    /\ tpc' = [tpc EXCEPT ![t] = "submit"]
    /\ tseen' = [tseen EXCEPT ![t] = pending[c]]
    /\ UNCHANGED <<threadFrame, ret, recording, pending, submitCount, gpuBusy, targ, lostDevices>>

\* The call hands what it read to the GPU, empties the queue and returns.
Submit_return(t, c) ==
    /\ tpc[t] = "submit"
    /\ submitCount' = [g \in RecordingIds |->
                          IF g \in tseen[t] THEN submitCount[g] + 1 ELSE submitCount[g]]
    /\ pending' = [pending EXCEPT ![c] = {}]
    /\ gpuBusy' = gpuBusy \cup tseen[t]
    /\ ret' = [op |-> "submit", val |-> SubmitResult(TRUE), id |-> c, opt |-> "none",
               inner |-> "true"]
    /\ tpc' = [tpc EXCEPT ![t] = "idle"]
    /\ tseen' = [tseen EXCEPT ![t] = {}]
    /\ UNCHANGED <<threadFrame, recording, targ, lostDevices>>

ThreadsNext ==
    \/ \E t \in Threads, c \in ContextIds, g \in RecordingIds : InsertRecording_enter(t, c, g)
    \/ \E t \in Threads, c \in ContextIds : InsertRecording_return(t, c)
    \/ \E t \in Threads, c \in ContextIds : Submit_enter(t, c)
    \/ \E t \in Threads, c \in ContextIds : Submit_return(t, c)

SpecThreads == InitThreads /\ [][ThreadsNext]_vars

\* The arguments the caller chooses.
SyncModes == {"kYes", "kNo"}
OptionArgs == {"absent", "present"}

----------------------------------------------------------------------------
(* Caller threads inside C_GrDirectContext_MakeDawn: the test of the static
   pointer, the store of a new device and the read for the call are separate
   accesses with no lock around them. *)

dawnFrame == <<fault, ctx, recorder, recording, nextCmd, pending, submitCount,
               gpuBusy, valueVars, targ, tseen>>

\* if (!device): thread t reads the static pointer and takes a branch.
MakeDawn_test(t) ==
    /\ tpc[t] = "idle"
    /\ dawnCalls < MaxDawnCalls
    /\ dawnCalls' = dawnCalls + 1
    /\ tpc' = [tpc EXCEPT ![t] = IF device = 0 THEN "MakeDawn_new" ELSE "MakeDawn_call"]
    /\ UNCHANGED <<dawnFrame, ret, device, devicesCreated, lostDevices>>

\* if (!device) device = new wgpu::Device();  under a lock held since the
\* test: the store happens only while the pointer is still null.
MakeDawn_new_guarded(t) ==
    /\ tpc[t] = "MakeDawn_new"
    /\ devicesCreated' = IF device = 0 THEN devicesCreated + 1 ELSE devicesCreated
    /\ device' = IF device = 0 THEN devicesCreated + 1 ELSE device
    /\ lostDevices' = lostDevices
    /\ tpc' = [tpc EXCEPT ![t] = "MakeDawn_call"]
    /\ UNCHANGED <<dawnFrame, ret, dawnCalls>>

\* device = new wgpu::Device();  The thread found the pointer null: it
\* creates a device and stores it over whatever the pointer holds by now.
MakeDawn_new(t) ==
    /\ tpc[t] = "MakeDawn_new"
    /\ devicesCreated' = devicesCreated + 1
    /\ device' = devicesCreated + 1
    /\ lostDevices' = IF device = 0 THEN lostDevices ELSE lostDevices \cup {device}
    /\ tpc' = [tpc EXCEPT ![t] = "MakeDawn_call"]
    /\ UNCHANGED <<dawnFrame, ret, dawnCalls>>

\* return GrDirectContext::MakeDawn(*device[, *options]).release();
MakeDawn_call(t, options) ==
    /\ tpc[t] = "MakeDawn_call"
    /\ \E made \in BOOLEAN :
         ret' = Ret("MakeDawn", IF made THEN "ptr" ELSE "null", device, options)
    /\ tpc' = [tpc EXCEPT ![t] = "idle"]
    /\ UNCHANGED <<dawnFrame, dawnCalls, device, devicesCreated, lostDevices>>

DawnThreadsNext ==
    \/ \E t \in Threads : MakeDawn_test(t)
    \/ \E t \in Threads : MakeDawn_new(t)
    \/ \E t \in Threads, o \in OptionArgs : MakeDawn_call(t, o)

SpecDawnThreads == Init /\ [][DawnThreadsNext]_vars

----------------------------------------------------------------------------

FactoryNext ==
    \/ \E o \in OptionArgs : C_Context_MakeMetal(o)
    \/ \E o \in OptionArgs : C_Context_MakeVulkan(o)
    \/ \E o \in OptionArgs : C_GrDirectContext_MakeDawn(o)
    \/ \E c \in ContextIds : C_Context_Destruct(c)

SpecFactory == Init /\ [][FactoryNext]_vars

Next ==
    \/ \E o \in OptionArgs : C_Context_MakeMetal(o)
    \/ \E o \in OptionArgs : C_Context_MakeVulkan(o)
    \/ \E c \in ContextIds : C_Context_Destruct(c)
    \/ \E c \in ContextIds, o \in OptionArgs : C_Context_makeRecorder(c, o)
    \/ \E r \in RecorderIds : Record(r)
    \/ \E r \in RecorderIds : C_Recorder_snap(r)
    \/ \E r \in RecorderIds : C_Recorder_Destruct(r)
    \/ \E g \in RecordingIds : C_Recording_Destruct(g)
    \/ \E c \in ContextIds, g \in RecordingIds : C_Context_insertRecording(c, g)
    \/ \E c \in ContextIds, s \in SyncModes : C_Context_submit(c, s)
    \/ \E g \in RecordingIds : GpuComplete(g)

Spec == Init /\ [][Next]_vars

----------------------------------------------------------------------------
(* Claims about the submission pipeline and the Recorder (Spec) *)

\* C1: the caller of C_Context_submit observes true when the submission
\* succeeded and false when it failed: what the entry point returns is what
\* Context::submit returned.
C1_SubmitReportsOutcome ==
    ret.op = "submit" => ret.val = ret.inner

\* C2: every Recording that was inserted (whatever insertRecording returned)
\* and that the caller never destructs is freed exactly once: at the latest
\* when its Context is gone, it has been freed once.
C2_InsertedRecordingFreedOnce ==
    \A g \in RecordingIds :
        (recording[g].st = "inserted" /\ ctx[RecordingContext(g)].st = "dead")
            => recording[g].freed = 1

\* The step is the GPU's own: no entry point returns in it.
GpuStep ==
    /\ gpuBusy' # gpuBusy /\ gpuBusy' \subseteq gpuBusy
    /\ UNCHANGED <<ret, pending, submitCount>>

\* C4: a submit that goes through hands the GPU exactly the Recordings
\* inserted and not yet submitted, each once more than before and no other,
\* leaves none outstanding, changes no object when nothing was outstanding,
\* and returns true to its caller.
C4_SubmitProcessesPending ==
    [][(ret'.op = "submit" /\ ret'.inner = "true" /\ ~GpuStep) =>
          LET c == ret'.id IN
          /\ \A g \in RecordingIds :
                submitCount'[g] = submitCount[g] + (IF g \in pending[c] THEN 1 ELSE 0)
          /\ pending'[c] = {}
          /\ pending[c] = {} =>
                UNCHANGED <<ctx, recorder, recording, nextCmd, pending, submitCount>>
          /\ ret'.val = "true"]_vars

\* C3: a context factory called with the options argument absent ends with a
\* new Context or a null result, and the process has not faulted.
C3_AbsentOptionsSafe ==
    (ret.op \in {"Make_metal", "Make_vulkan", "MakeDawn"} /\ ret.opt = "absent")
        => (ret.val \in {"ptr", "null"} /\ ~fault)

\* C6: over sequential MakeDawn calls the device is created exactly once, on
\* the first call; every call uses the cached handle; once set the handle
\* never changes again.
C6_DeviceState ==
    /\ dawnCalls = 0 => (device = 0 /\ devicesCreated = 0)
    /\ dawnCalls >= 1 => (device = 1 /\ devicesCreated = 1)
    /\ ret.op = "MakeDawn" => ret.id = device

\* C6: the device state above holds in every state and a cached handle is
\* never cleared or replaced.
C6_SingleDevice ==
    []C6_DeviceState /\ [][device # 0 => device' = device]_vars

\* A later call, whose context creation failed, with the one device cached.
C6_Witness ==
    /\ dawnCalls >= 2
    /\ devicesCreated = 1
    /\ ret.op = "MakeDawn" /\ ret.val = "null"

\* C7 as stated: every call to snap produces a Recording instance.
C7_EverySnapYieldsRecording ==
    ret.op = "snap" => ret.val = "ptr"

\* What a snap step does: a snap either fails (null) or returns a Recording instance
\* never handed out before, owned by the caller, holding exactly the commands
\* recorded since the previous snap; after every snap the Recorder is Idle
\* with an empty buffer; only snap takes a Recorder from Recording to Idle.
C7_SnapStep ==
    /\ (ret'.op = "snap" /\ gpuBusy' = gpuBusy) =>
          \E r \in RecorderIds :
             /\ recorder[r].st \in {"idle", "recording"}
             /\ recorder'[r].st = "idle"
             /\ recorder'[r].buf = {}
             /\ ret'.val \in {"ptr", "null"}
             /\ ret'.val = "ptr" =>
                   /\ recording[ret'.id].st = "none"
                   /\ recording'[ret'.id].st = "snapped"
                   /\ recording'[ret'.id].from = r
                   /\ recording'[ret'.id].content = recorder[r].buf
    /\ \A r \in RecorderIds :
          (recorder[r].st = "recording" /\ recorder'[r].st = "idle") => ret'.op = "snap"

\* No command is in two Recordings, or in a Recording and still in a buffer.
C7_CommandsPartitioned ==
    /\ \A g, h \in RecordingIds :
          g # h => recording[g].content \cap recording[h].content = {}
    /\ \A g \in RecordingIds, r \in RecorderIds :
          recording[g].content \cap recorder[r].buf = {}

\* C7, amended: a Recorder is reusable and a Recording single-use: every snap
\* fails (null) or returns a new Recording distinct from all before it, holding
\* only the commands recorded since the previous snap; snap is the only way
\* out of Recording short of destroying the Recorder, and leaves it Idle.
C7_RecorderReusable ==
    []C7_CommandsPartitioned /\ [][C7_SnapStep]_vars

\* Two Recordings snapped from one Recorder, the second with commands of its
\* own, and the Recorder recording again.
C7_Witness ==
    \E g, h \in RecordingIds, r \in RecorderIds :
        /\ g # h
        /\ recording[g].st # "none" /\ recording[h].st # "none"
        /\ recording[g].from = r /\ recording[h].from = r
        /\ recording[h].content # {}
        /\ recorder[r].st = "recording"

----------------------------------------------------------------------------
(* Claims about the value descriptors (SpecValue) *)

\* How many live storages hold resource n.
Holders(n) ==
    (IF ti.st = "live" /\ ti.res = n THEN 1 ELSE 0)
  + (IF bt.st = "live" /\ bt.res = n THEN 1 ELSE 0)

\* C8: a Make* call on a descriptor holding a prior valid value releases the
\* prior value's resource exactly once and leaves the new one held exactly
\* once; after Make* calls and a Destruct every resource acquired was
\* released exactly once.  Stated for every resource: it is never released
\* twice, it is released exactly when no storage holds it any more, it is held
\* by at most one storage, and none is outstanding without a holder, other
\* than one whose holder C_BackendTexture_info constructed over.
C8_ResourcesBalanced ==
    \A n \in ResourceIds :
        IF n < nextRes
        THEN /\ rel[n] <= 1
             /\ Holders(n) <= 1
             /\ rel[n] = 1 => Holders(n) = 0
             /\ rel[n] = 0 => (Holders(n) = 1 \/ n \in clobbered)
        ELSE rel[n] = 0 /\ Holders(n) = 0

\* A Make* call has just replaced a valid prior value of the BackendTexture:
\* the first resource is released, the second held.
C8_Witness ==
    /\ ret.op \in {"BackendTexture_MakeMetal", "BackendTexture_MakeVulkan"}
    /\ ret.opt = "over_valid"
    /\ bt.valid /\ bt.res # 0
    /\ \E n \in ResourceIds : n # bt.res /\ rel[n] = 1
    /\ clobbered = {}

\* References the MtlBackendContext storage holds to handle h.
StoredRefs(h) ==
    IF mbc.st = "live"
    THEN (IF mbc.dev = h THEN 1 ELSE 0) + (IF mbc.queue = h THEN 1 ELSE 0)
    ELSE 0

\* C9: Construct retains the device and the queue once each and Destruct
\* releases each once: the count of every handle is the caller's one
\* reference plus one per reference the descriptor stores, so after
\* Construct-then-Destruct it is what it was before, also when device and
\* queue are the same handle.
C9_RetainReleaseBalanced ==
    \A h \in Handles : rc[h] = 1 + StoredRefs(h)

\* Construct(storage, h, h) then Destruct has just run.
C9_Witness ==
    /\ ret.op = "MtlBackendContext_Destruct"
    /\ ret.opt = "same"
    /\ mbc.st = "raw"
    /\ \A h \in Handles : rc[h] = 1

\* C10 as stated: a descriptor is valid only after a successful Make call on
\* that object.
C10_ValidOnlyAfterMake ==
    /\ (ti.st = "live" /\ ti.valid) => ti.origin = "make"
    /\ (bt.st = "live" /\ bt.valid) => bt.origin = "make"

\* Where validity comes from: a descriptor is invalid right after default
\* Construct; a BackendTexture is valid only after a successful Make call on it; a
\* TextureInfo is valid only after a successful Make call on it or after
\* C_BackendTexture_info copied the info of a valid BackendTexture into it.
C10_ValidityOrigin ==
    /\ ret.op = "TextureInfo_Construct" => (ti.st = "live" /\ ~ti.valid)
    /\ ret.op = "BackendTexture_Construct" => (bt.st = "live" /\ ~bt.valid)
    /\ (ti.st = "live" /\ ti.valid) => ti.origin \in {"make", "info"}
    /\ (bt.st = "live" /\ bt.valid) => bt.origin = "make"

\* isValid reports the flag; isValid, dimensions and wrapping change no
\* descriptor; info leaves the BackendTexture it reads alone and gives the
\* result that BackendTexture's validity.
C10_ReadStep ==
    /\ ret'.op \in {"TextureInfo_isValid", "BackendTexture_isValid",
                    "BackendTexture_dimensions", "Surface_MakeGraphiteWrapped"}
          => (ti' = ti /\ bt' = bt)
    /\ ret'.op = "TextureInfo_isValid" => ret'.val = Bool(ti.valid)
    /\ ret'.op = "BackendTexture_isValid" => ret'.val = Bool(bt.valid)
    /\ ret'.op = "BackendTexture_info" => (bt' = bt /\ ti'.valid = bt.valid)

\* C10, amended: validity tracks how the value was produced (a Make call on
\* the object or, for a TextureInfo, a copy of a valid BackendTexture's info),
\* and no reading operation turns an invalid descriptor valid.
C10_ValidityTracksFactory ==
    []C10_ValidityOrigin /\ [][C10_ReadStep]_vars

\* A TextureInfo that no Make call ever populated reports valid: it is the
\* copy of a valid BackendTexture's info.
C10_Witness ==
    /\ ret.op = "TextureInfo_isValid" /\ ret.val = "true"
    /\ ti.origin = "info"
    /\ bt.valid

----------------------------------------------------------------------------
(* Claim about concurrent callers (SpecThreads) *)

\* C5: concurrent insertRecording and submit calls on one Context behave as
\* some sequential order of them: once every call has returned, each inserted
\* Recording is either still queued and not yet submitted, or no longer queued
\* and submitted exactly once.
C5_CallsSerialized ==
    (\A t \in Threads : tpc[t] = "idle") =>
        \A g \in RecordingIds, c \in ContextIds :
            recording[g].ins = "true" =>
                \/ g \in pending[c] /\ submitCount[g] = 0
                \/ g \notin pending[c] /\ submitCount[g] = 1

----------------------------------------------------------------------------
(* Claims about the surface binder (SpecValue) *)

\* C11: wrapping a BackendTexture as a surface transfers no ownership: the
\* wrap and the later death of the surface leave the BackendTexture (its
\* validity, the resource it holds) and every release count as they were; for
\* an invalid BackendTexture the call returns null and changes nothing.
C11_WrapStep ==
    /\ ret'.op = "Surface_MakeGraphiteWrapped" =>
          /\ bt' = bt /\ ti' = ti /\ rel' = rel /\ rc' = rc
          /\ ~bt.valid => (ret'.val = "null" /\ surfaces' = surfaces)
    /\ ret'.op = "Surface_unref" =>
          /\ bt' = bt /\ ti' = ti /\ rel' = rel /\ rc' = rc
          /\ surfaces' = surfaces - 1

C11_WrapKeepsOwnership == [][C11_WrapStep]_vars

\* A surface wrapping the valid BackendTexture was created and has died: the
\* BackendTexture is still valid and still holds its unreleased resource.
C11_Witness ==
    /\ ret.op = "Surface_unref"
    /\ surfaces = 0
    /\ bt.st = "live" /\ bt.valid /\ bt.res # 0
    /\ rel[bt.res] = 0

----------------------------------------------------------------------------
(* Claims about the synchronisation mode of submit (Spec) *)

\* C12: a synchronous submit returns only when all the work handed to the
\* GPU up to and including that call has completed; an asynchronous submit
\* returns without waiting, so the work it handed over may be incomplete;
\* no other entry point waits for the GPU: work completes during an entry
\* point only during a synchronous submit.
C12_SubmitStep ==
    /\ (ret'.op = "submit" /\ ~GpuStep /\ ret'.opt = "kYes") => gpuBusy' = {}
    /\ (ret'.op = "submit" /\ ~GpuStep /\ ret'.opt = "kNo") =>
          /\ gpuBusy \subseteq gpuBusy'
          /\ ret'.inner = "true" => pending[ret'.id] \subseteq gpuBusy'
    /\ (gpuBusy \ gpuBusy' # {} /\ ~GpuStep) =>
          (ret'.op = "submit" /\ ret'.opt = "kYes")

C12_OnlySyncSubmitWaits == [][C12_SubmitStep]_vars

\* A synchronous submit has just returned, having handed a Recording to the
\* GPU, and no GPU work is outstanding.
C12_Witness ==
    /\ ret.op = "submit" /\ ret.opt = "kYes" /\ ret.inner = "true"
    /\ \E g \in RecordingIds : submitCount[g] > 0
    /\ gpuBusy = {}

----------------------------------------------------------------------------
(* Claims about the lifetime of a Context and what derives from it (Spec) *)

\* A Recording whose submission has not completed: snapped and still the
\* caller's, queued in a Context, or handed to the GPU and not yet done.
Unfinished(g) ==
    \/ recording[g].st = "snapped"
    \/ /\ recording[g].st = "inserted"
       /\ (g \in gpuBusy \/ \E c \in ContextIds : g \in pending[c])

\* C13: every live Recorder, and every Recording snapped or inserted whose
\* submission has not completed, has a parent Context that is still live.
C13_ContextOutlivesDerived ==
    /\ \A r \in LiveRecorders : ctx[recorder[r].ctx].st = "live"
    /\ \A g \in RecordingIds : Unfinished(g) => ctx[RecordingContext(g)].st = "live"

\* Every Recorder and Recording has a parent that was created.
C13_ParentExists ==
    /\ \A r \in RecorderIds : recorder[r].st # "none" =>
          /\ recorder[r].ctx \in ContextIds
          /\ ctx[recorder[r].ctx].st \in {"live", "dead"}
    /\ \A g \in RecordingIds : recording[g].st # "none" =>
          /\ recording[g].from \in RecorderIds
          /\ recorder[recording[g].from].st # "none"

C13_LifetimeStep ==
    \* a Recorder or Recording comes to be only under a live Context
    /\ \A r \in RecorderIds : (recorder[r].st = "none" /\ recorder'[r].st # "none") =>
          (ctx[recorder'[r].ctx].st = "live" /\ ctx' = ctx)
    /\ \A g \in RecordingIds : (recording[g].st = "none" /\ recording'[g].st # "none") =>
          (ctx[recorder[recording'[g].from].ctx].st = "live" /\ ctx' = ctx)
    \* the death of a Context touches no Recorder and no Recording
    /\ \A c \in ContextIds : (ctx[c].st = "live" /\ ctx'[c].st = "dead") =>
          (recorder' = recorder /\ recording' = recording /\ gpuBusy' = gpuBusy)

\* C13 (amended): the order is not enforced.  Every Recorder and Recording
\* is created under a live parent Context; C_Context_Destruct ends the
\* Context whatever derives from it and leaves the derived objects as they
\* are, so a live Recorder or unfinished Recording can have a dead parent.
C13_DerivedFromLiveParent == []C13_ParentExists /\ [][C13_LifetimeStep]_vars

\* The Context was destructed while a Recorder created from it is live and
\* a Recording derived from it is still the caller's.
C13_Witness ==
    /\ \E r \in LiveRecorders : ctx[recorder[r].ctx].st = "dead"
    /\ \E g \in RecordingIds :
          recording[g].st = "snapped" /\ ctx[RecordingContext(g)].st = "dead"

----------------------------------------------------------------------------
(* Claims about concurrent first calls of C_GrDirectContext_MakeDawn
   (SpecDawnThreads) *)

\* Every device created is the one cached or one whose handle was
\* overwritten.
C14_DevicesAccounted ==
    /\ lostDevices \subseteq 1..devicesCreated
    /\ device \notin lostDevices
    /\ devicesCreated = Cardinality(lostDevices) + (IF device = 0 THEN 0 ELSE 1)

C14_StoreStep ==
    \* a thread that found the handle absent creates and stores a device,
    \* whatever the handle holds by then
    /\ \A t \in Threads : (tpc[t] = "MakeDawn_new" /\ tpc'[t] # "MakeDawn_new") =>
          /\ devicesCreated' = devicesCreated + 1
          /\ device' = devicesCreated'
          /\ device # 0 => device \in lostDevices'
    \* an overwritten device is never freed
    /\ lostDevices \subseteq lostDevices'

\* C14: the test for absence and the store are separate steps with no guard:
\* each thread that observed the handle absent creates a device and stores it
\* over the handle, so that two threads that both observed it absent create
\* two devices, of which the first stored is overwritten and never freed.
C14_UnguardedLazyDevice == []C14_DevicesAccounted /\ [][C14_StoreStep]_vars

\* Both threads observed the handle absent and each created a device: two
\* devices exist, one overwritten.
C14_Witness ==
    /\ devicesCreated = 2
    /\ device = 2
    /\ lostDevices = {1}
    /\ \A t \in Threads : tpc[t] = "MakeDawn_call"

----------------------------------------------------------------------------
(* Claims about how the writers of a value descriptor replace its value
   (SpecValue) *)

\* C15: every writer other than a Construct assigns over a constructed
\* target and finalizes the prior value, C_BackendTexture_info included, so
\* that once the storage has been destructed every value created in it has
\* been finalized.
C15_CreatedEqualsFinalized ==
    ti.st = "raw" => unfinalized = 0

C15_WriterStep ==
    \* a Make* call assigns: its target is constructed and the prior value
    \* is finalized
    /\ ret'.op = "TextureInfo_MakeMetal" =>
          (ti.st = "live" /\ rel' = Released(rel, ti) /\ unfinalized' = unfinalized)
    /\ ret'.op \in {"BackendTexture_MakeMetal", "BackendTexture_MakeVulkan"} =>
          (bt.st = "live" /\ rel' = Released(rel, bt) /\ unfinalized' = unfinalized)
    \* C_BackendTexture_info constructs: nothing is finalized, and a prior
    \* value of the result is left unfinalized
    /\ ret'.op = "BackendTexture_info" =>
          /\ rel' = rel
          /\ ti'.st = "live" /\ ti'.origin = "info"
          /\ unfinalized' = IF ti.st = "live" THEN unfinalized + 1 ELSE unfinalized
    /\ ret'.op # "BackendTexture_info" =>
          (unfinalized' = unfinalized /\ clobbered' = clobbered)

\* C15 (amended): the Make* writers assign over a constructed target and
\* finalize the prior value; C_BackendTexture_info constructs its result
\* afresh and finalizes nothing: on raw storage the values created and
\* finalized stay balanced, on an already constructed TextureInfo the prior
\* value is never finalized.
C15_InfoConstructsAfresh == [][C15_WriterStep]_vars

\* C_BackendTexture_info was applied to a constructed TextureInfo holding a
\* resource and the storage was then destructed: the overwritten value's
\* resource was never released.
C15_Witness ==
    /\ ret.op = "TextureInfo_Destruct"
    /\ ti.st = "raw"
    /\ unfinalized = 1
    /\ \E n \in clobbered : rel[n] = 0

----------------------------------------------------------------------------
(* Claims about C_Context_makeRecorder (Spec) *)

C16_MakeRecorderStep ==
    (ret'.op = "makeRecorder" /\ ret' # ret) =>
       /\ ~fault'
       /\ ctx' = ctx
       /\ ret'.opt \in OptionArgs
       /\ ret'.val \in {"ptr", "null"}
       /\ ret'.val = "null" => (ret'.id = 0 /\ recorder' = recorder)
       /\ ret'.val = "ptr" =>
             /\ ret'.id \in RecorderIds
             /\ recorder[ret'.id].st = "none"
             /\ recorder'[ret'.id].st = "idle" /\ recorder'[ret'.id].buf = {}
             /\ recorder'[ret'.id].ctx \in ContextIds
             /\ ctx[recorder'[ret'.id].ctx].st = "live"
             /\ ret'.opt = "absent" => recorder'[ret'.id].opt = "defaults"
             /\ ret'.opt = "present" => recorder'[ret'.id].opt = "present"
             /\ \A q \in RecorderIds \ {ret'.id} : recorder'[q] = recorder[q]

\* The Recorder is the caller's: it lives until the caller's one
\* C_Recorder_Destruct and no other entry point ends it.
C16_OwnedStep ==
    \A r \in RecorderIds :
       /\ (recorder[r].st \in {"idle", "recording"} /\ recorder'[r].st \notin {"idle", "recording"}) =>
             (recorder'[r].st = "dead" /\ ret' = Void /\ ctx' = ctx /\ recording' = recording)
       /\ recorder[r].st = "dead" => recorder'[r] = recorder[r]

\* C16: C_Context_makeRecorder accepts absent options: with options absent
\* the Recorder is created with the backend defaults, with options present
\* with exactly those; the result is null or a pointer to a new Recorder
\* bound to a live Context, owned by the caller alone: it lives until one
\* C_Recorder_Destruct.
C16_MakeRecorderOwned == [][C16_MakeRecorderStep /\ C16_OwnedStep]_vars

\* A Recorder made with absent options, configured with the defaults, and
\* the Context it is bound to.
C16_Witness ==
    /\ ret.op = "makeRecorder" /\ ret.val = "ptr" /\ ret.opt = "absent"
    /\ recorder[ret.id].st = "idle"
    /\ recorder[ret.id].opt = "defaults"
    /\ ctx[recorder[ret.id].ctx].st = "live"
====
